---- MODULE Spec2Model ----
(***************************************************************************)
(* serial-can: the SLCAN command codec (src/src/lib.rs) and its CAN frame  *)
(* value type (src/src/frame.rs).                                          *)
(*                                                                         *)
(* A &str is a sequence of characters, each character a one-element TLA+   *)
(* string; "U00E9" stands for one two-byte UTF-8 character.  A parser      *)
(* returns a record: kind "Ok" (rest, val), "Error" / "Failure" (nom's     *)
(* Err::Error / Err::Failure with the error's input and ErrorKind), or     *)
(* "Panic" when the call unwinds instead of returning.                     *)
(***************************************************************************)
EXTENDS Integers, Sequences, FiniteSets, TLC

VARIABLES pc, call, frame, cmd, wire, res, parser, sent, rest, decoded

vars == <<pc, call, frame, cmd, wire, res, parser, sent, rest, decoded>>

----------------------------------------------------------------------------
(* Characters and numbers                                                  *)

CR == "\r"

DecDigits == <<"0", "1", "2", "3", "4", "5", "6", "7", "8", "9">>

UpperHex == <<"0", "1", "2", "3", "4", "5", "6", "7", "8", "9",
              "A", "B", "C", "D", "E", "F">>

LowerHex == <<"0", "1", "2", "3", "4", "5", "6", "7", "8", "9",
              "a", "b", "c", "d", "e", "f">>

Range(s) == {s[i] : i \in 1..Len(s)}

IndexOf(s, c) == CHOOSE i \in 1..Len(s) : s[i] = c

\* Bytes one character takes in UTF-8 (str indices in Rust are byte offsets).
Utf8Len(c) == IF c = "U00E9" THEN 2 ELSE 1

\* The byte offsets at which the characters of s start, then its byte length.
RECURSIVE CharStarts(_, _)
CharStarts(s, off) ==
    IF s = <<>> THEN <<off>>
    ELSE <<off>> \o CharStarts(Tail(s), off + Utf8Len(Head(s)))

\* char::to_digit(16): the digit's value, or -1 for None.
to_digit(c) ==
    IF c \in Range(UpperHex) THEN IndexOf(UpperHex, c) - 1
    ELSE IF c \in Range(LowerHex) THEN IndexOf(LowerHex, c) - 1
    ELSE -1

\* Largest value a TLC integer holds; an accumulated value above it
\* (only an 8-digit u32 can exceed it) is kept as IntCap.  Every use of such
\* a value compares it against ExtendedIdMax, which is far below.
IntCap == 2 * (2 ^ 30 - 1) + 1

RECURSIVE HexValue(_, _)
HexValue(acc, digits) ==
    IF digits = <<>> THEN acc
    ELSE LET d == to_digit(Head(digits))
         IN  IF acc > (IntCap - d) \div 16 THEN IntCap
             ELSE HexValue(acc * 16 + d, Tail(digits))

RECURSIVE StripZeros(_)
StripZeros(s) ==
    IF s # <<>> /\ Head(s) = "0" THEN StripZeros(Tail(s)) ELSE s

\* <uN>::from_str_radix(src, 16) for an unsigned type of `bits` bits:
\* an optional leading '+', then one or more hex digits of either case.
from_str_radix(src, bits) ==
    IF src = <<>> THEN [ok |-> FALSE, val |-> 0]
    ELSE IF Len(src) = 1 /\ src[1] \in {"+", "-"} THEN [ok |-> FALSE, val |-> 0]
    ELSE LET digits == IF src[1] = "+" THEN Tail(src) ELSE src
         IN  IF \E i \in 1..Len(digits) : to_digit(digits[i]) < 0
                 THEN [ok |-> FALSE, val |-> 0]
             ELSE IF Len(StripZeros(digits)) * 4 > bits
                 THEN [ok |-> FALSE, val |-> 0]
             ELSE [ok |-> TRUE, val |-> HexValue(0, digits)]

RECURSIVE HexDigits(_)
HexDigits(n) ==
    IF n < 16 THEN <<UpperHex[n + 1]>>
    ELSE HexDigits(n \div 16) \o <<UpperHex[(n % 16) + 1]>>

RECURSIVE DecString(_)
DecString(n) ==
    IF n < 10 THEN <<DecDigits[n + 1]>>
    ELSE DecString(n \div 10) \o <<DecDigits[(n % 10) + 1]>>

RECURSIVE ZeroPad(_, _)
ZeroPad(s, width) == IF Len(s) >= width THEN s ELSE ZeroPad(<<"0">> \o s, width)

\* format!("{:0wX}", n)
FmtHex(n, width) == ZeroPad(HexDigits(n), width)

RECURSIVE Concat(_)
Concat(ss) == IF ss = <<>> THEN <<>> ELSE Head(ss) \o Concat(Tail(ss))

Zeros(n) == [i \in 1..n |-> 0]

----------------------------------------------------------------------------
(* Identifiers (embedded_can::StandardId / ExtendedId as lib.rs uses them) *)

None == [type |-> "None"]

StandardIdMax == 2047
ExtendedIdMax == 536870911

StandardId_new(raw) ==
    IF raw <= StandardIdMax THEN [type |-> "Standard", raw |-> raw] ELSE None

ExtendedId_new(raw) ==
    IF raw <= ExtendedIdMax THEN [type |-> "Extended", raw |-> raw] ELSE None

----------------------------------------------------------------------------
(* Frame (src/src/frame.rs)                                                *)

MaxDlc == 8

\* Frame::new with the length test off by one (`>=`): 8 bytes are refused.
Frame_new_Below8(id, data) ==
    IF Len(data) >= MaxDlc THEN None
    ELSE [type |-> "Frame", id |-> id, remote |-> FALSE, dlc |-> Len(data),
          data |-> data \o Zeros(MaxDlc - Len(data))]

Frame_new(id, data) ==
    IF Len(data) > MaxDlc THEN None
    ELSE [type |-> "Frame", id |-> id, remote |-> FALSE, dlc |-> Len(data),
          data |-> data \o Zeros(MaxDlc - Len(data))]

Frame_new_remote(id, dlc) ==
    IF dlc > MaxDlc THEN None
    ELSE [type |-> "Frame", id |-> id, remote |-> TRUE, dlc |-> dlc,
          data |-> Zeros(MaxDlc)]

Frame_id(f) == f.id

Frame_dlc(f) == f.dlc

Frame_data(f) == SubSeq(f.data, 1, Frame_dlc(f))

Frame_is_extended(f) == f.id.type = "Extended"

Frame_is_remote_frame(f) == f.remote

\* embedded_can::Frame::is_data_frame, the trait's provided method.
Frame_is_data_frame(f) == ~Frame_is_remote_frame(f)

----------------------------------------------------------------------------
(* Commands and their wire form (impl Display, src/src/lib.rs)             *)

Bitrate == <<"Rate10kbit", "Rate20kbit", "Rate50kbit", "Rate100kbit",
             "Rate125kbit", "Rate250kbit", "Rate500kbit", "Rate800kbit",
             "Rate1000kbit">>

\* `bitrate as u8`: the enum's discriminant.
Bitrate_as_u8(b) == IndexOf(Bitrate, b) - 1

Setup_new(bitrate) == [type |-> "Setup", bitrate |-> bitrate]

Open_new == [type |-> "Open"]

Close_new == [type |-> "Close"]

\* Transmit::new: the foreign frame is rebuilt as a library frame; unwrap
\* of None unwinds, which callers see as no Transmit at all (None here).
Transmit_new(f) ==
    LET fr == IF Frame_is_remote_frame(f)
              THEN Frame_new_remote(Frame_id(f), Frame_dlc(f))
              ELSE Frame_new(Frame_id(f), Frame_data(f))
    IN  IF fr = None THEN None ELSE [type |-> "Transmit", frame |-> fr]

Setup_fmt(c) == <<"S">> \o DecString(Bitrate_as_u8(c.bitrate)) \o <<CR>>

Open_fmt(c) == <<"O", CR>>

Close_fmt(c) == <<"C", CR>>

Transmit_kind(f) ==
    IF Frame_is_extended(f)
    THEN (IF Frame_is_remote_frame(f) THEN "R" ELSE "T")
    ELSE (IF Frame_is_remote_frame(f) THEN "r" ELSE "t")

\* Display for Transmit without the is_data_frame test: a remote frame's
\* (zero) payload is written too.
Transmit_fmt_AlwaysData(c) ==
    LET f  == c.frame
        id == Frame_id(f)
        d  == Frame_data(f)
    IN  <<Transmit_kind(f)>>
        \o (IF id.type = "Standard" THEN FmtHex(id.raw, 3) ELSE FmtHex(id.raw, 8))
        \o DecString(Frame_dlc(f))
        \o Concat([i \in 1..Len(d) |-> FmtHex(d[i], 2)])
        \o <<CR>>

Transmit_fmt(c) ==
    LET f  == c.frame
        id == Frame_id(f)
        d  == Frame_data(f)
    IN  <<Transmit_kind(f)>>
        \o (IF id.type = "Standard" THEN FmtHex(id.raw, 3) ELSE FmtHex(id.raw, 8))
        \o DecString(Frame_dlc(f))
        \o (IF Frame_is_data_frame(f)
            THEN Concat([i \in 1..Len(d) |-> FmtHex(d[i], 2)])
            ELSE <<>>)
        \o <<CR>>

\* format!("{}", c) for any of the four command types.
Format(c) ==
    CASE c.type = "Setup"    -> Setup_fmt(c)
      [] c.type = "Open"     -> Open_fmt(c)
      [] c.type = "Close"    -> Close_fmt(c)
      [] c.type = "Transmit" -> Transmit_fmt(c)

----------------------------------------------------------------------------
(* nom combinators as the parsers use them                                 *)

Ok(input, val) == [kind |-> "Ok", rest |-> input, val |-> val, code |-> "None"]

ErrError(input, code) ==
    [kind |-> "Error", rest |-> input, val |-> None, code |-> code]

ErrFailure(input, code) ==
    [kind |-> "Failure", rest |-> input, val |-> None, code |-> code]

Panic(why) == [kind |-> "Panic", rest |-> <<>>, val |-> None, code |-> why]

Drop(input, n) == SubSeq(input, n + 1, Len(input))

tag(t, input) ==
    IF Len(input) >= Len(t) /\ SubSeq(input, 1, Len(t)) = t
    THEN Ok(Drop(input, Len(t)), t)
    ELSE ErrError(input, "Tag")

one_of(set, input) ==
    IF input # <<>> /\ input[1] \in set
    THEN Ok(Tail(input), input[1])
    ELSE ErrError(input, "OneOf")

\* take(count) on a &str counts characters.
take(count, input) ==
    IF Len(input) >= count
    THEN Ok(Drop(input, count), SubSeq(input, 1, count))
    ELSE ErrError(input, "Eof")

RECURSIVE DigitPrefixLen(_)
DigitPrefixLen(input) ==
    IF input # <<>> /\ Head(input) \in Range(DecDigits)
    THEN 1 + DigitPrefixLen(Tail(input))
    ELSE 0

digit1(input) ==
    LET n == DigitPrefixLen(input)
    IN  IF n = 0 THEN ErrError(input, "Digit")
        ELSE Ok(Drop(input, n), SubSeq(input, 1, n))

\* map(p, Command::Variant): wraps a successful value.
map(r, variant) ==
    IF r.kind = "Ok" THEN Ok(r.rest, [type |-> "Command", variant |-> variant, value |-> r.val])
    ELSE r

\* alt over the results of the alternatives, in order: an Err::Error moves
\* on to the next one, anything else is returned; when all give Err::Error
\* the last one's error is returned.
RECURSIVE alt(_)
alt(rs) ==
    IF Len(rs) = 1 \/ Head(rs).kind # "Error" THEN Head(rs)
    ELSE alt(Tail(rs))

----------------------------------------------------------------------------
(* The parsers (src/src/lib.rs)                                            *)

\* Setup::try_parse with the last match arm ("8") missing.
Setup_try_parse_Below8(input) ==
    LET r1 == tag(<<"S">>, input)
    IN  IF r1.kind # "Ok" THEN r1
        ELSE LET r2 == digit1(r1.rest)
             IN  IF r2.kind # "Ok" THEN r2
                 ELSE LET r3 == tag(<<CR>>, r2.rest)
                      IN  IF r3.kind # "Ok" THEN r3
                          ELSE IF Len(r2.val) = 1 /\ to_digit(r2.val[1]) < 8
                              THEN Ok(r3.rest, Setup_new(Bitrate[to_digit(r2.val[1]) + 1]))
                          ELSE ErrFailure(r3.rest, "Digit")

Setup_try_parse(input) ==
    LET r1 == tag(<<"S">>, input)
    IN  IF r1.kind # "Ok" THEN r1
        ELSE LET r2 == digit1(r1.rest)
             IN  IF r2.kind # "Ok" THEN r2
                 ELSE LET r3 == tag(<<CR>>, r2.rest)
                      IN  IF r3.kind # "Ok" THEN r3
                          ELSE IF Len(r2.val) = 1 /\ to_digit(r2.val[1]) <= 8
                              THEN Ok(r3.rest, Setup_new(Bitrate[to_digit(r2.val[1]) + 1]))
                          ELSE ErrFailure(r3.rest, "Digit")

\* Open::try_parse matching "O" alone, leaving the '\r' in the remainder.
Open_try_parse_KeepsCR(input) ==
    LET r == tag(<<"O">>, input)
    IN  IF r.kind # "Ok" THEN r ELSE Ok(r.rest, Open_new)

Open_try_parse(input) ==
    LET r == tag(<<"O", CR>>, input)
    IN  IF r.kind # "Ok" THEN r ELSE Ok(r.rest, Open_new)

\* Close::try_parse with Open's tag ("O\r") left in by copy and paste.
Close_try_parse_OpenTag(input) ==
    LET r == tag(<<"O", CR>>, input)
    IN  IF r.kind # "Ok" THEN r ELSE Ok(r.rest, Close_new)

Close_try_parse(input) ==
    LET r == tag(<<"C", CR>>, input)
    IN  IF r.kind # "Ok" THEN r ELSE Ok(r.rest, Close_new)

\* &data[from..to]: byte offsets; off a character boundary the slice panics.
StrSlice(s, from, to) ==
    LET starts == CharStarts(s, 0)
    IN  IF from \notin Range(starts) \/ to \notin Range(starts)
        THEN [ok |-> FALSE, str |-> <<>>]
        ELSE [ok |-> TRUE,
              str |-> SubSeq(s, IndexOf(starts, from), IndexOf(starts, to) - 1)]

\* The loop `for i in 0..dlc { array[i] = u8::from_str_radix(..)? }`: the
\* right-hand side (slice, conversion, `?`) is evaluated before the place
\* array[i], whose bounds check panics for i >= 8.
RECURSIVE DecodeData(_, _, _, _)
DecodeData(data, dlc, i, array) ==
    IF i >= dlc THEN [kind |-> "Ok", array |-> array]
    ELSE LET sl == StrSlice(data, i * 2, i * 2 + 2)
         IN  IF ~sl.ok THEN [kind |-> "Panic", array |-> array]
             ELSE LET b == from_str_radix(sl.str, 8)
                  IN  IF ~b.ok THEN [kind |-> "Failure", array |-> array]
                      ELSE IF i >= Len(array) THEN [kind |-> "Panic", array |-> array]
                      ELSE DecodeData(data, dlc, i + 1, [array EXCEPT ![i + 1] = b.val])

\* Transmit::try_parse from the DLC character on (lines 156-185).
Transmit_parse_body(kind, id, input) ==
    LET r3 == take(1, input)
    IN  IF r3.kind # "Ok" THEN r3
        ELSE LET d == from_str_radix(r3.val, 64)
             IN  IF ~d.ok THEN ErrFailure(r3.rest, "HexDigit")
                 ELSE LET dlc == d.val
                          r4  == IF dlc > 0 THEN take(dlc * 2, r3.rest)
                                 ELSE Ok(r3.rest, <<>>)
                      IN  IF r4.kind # "Ok" THEN r4
                          ELSE LET dec == IF r4.val = <<>>
                                          THEN [kind |-> "Ok", array |-> Zeros(8)]
                                          ELSE DecodeData(r4.val, dlc, 0, Zeros(8))
                               IN  IF dec.kind = "Panic" THEN Panic("index")
                                   ELSE IF dec.kind = "Failure"
                                       THEN ErrFailure(r4.rest, "HexDigit")
                                   ELSE IF kind \in {"t", "T"} /\ dlc > Len(dec.array)
                                       THEN Panic("slice")
                                   ELSE LET fr == IF kind \in {"t", "T"}
                                                  THEN Frame_new(id, SubSeq(dec.array, 1, dlc))
                                                  ELSE Frame_new_remote(id, dlc)
                                        IN  IF fr = None THEN Panic("unwrap")
                                            ELSE LET r5 == tag(<<CR>>, r4.rest)
                                                 IN  IF r5.kind # "Ok" THEN r5
                                                     ELSE Ok(r5.rest, Transmit_new(fr))

Transmit_try_parse(input) ==
    LET r1 == one_of({"t", "T", "r", "R"}, input)
    IN  IF r1.kind # "Ok" THEN r1
        ELSE LET kind     == r1.val
                 standard == kind \in {"t", "r"}
                 r2       == take(IF standard THEN 3 ELSE 8, r1.rest)
             IN  IF r2.kind # "Ok" THEN r2
                 ELSE LET n == from_str_radix(r2.val, IF standard THEN 16 ELSE 32)
                      IN  IF ~n.ok THEN ErrFailure(r2.rest, "HexDigit")
                          ELSE LET id == IF standard THEN StandardId_new(n.val)
                                         ELSE ExtendedId_new(n.val)
                               IN  IF id = None THEN Panic("unwrap")
                                   ELSE Transmit_parse_body(kind, id, r2.rest)

Alternatives == {"Setup", "Open", "Close", "Transmit"}

\* One alternative of Command::try_parse, by name.
Parse(name, input) ==
    CASE name = "Setup"    -> Setup_try_parse(input)
      [] name = "Open"     -> Open_try_parse(input)
      [] name = "Close"    -> Close_try_parse(input)
      [] name = "Transmit" -> Transmit_try_parse(input)

\* What each alternative, wrapped by map(.., Command::Variant), returns on
\* input (the parsers are pure, so the results do not depend on which ran).
Mapped(input) == [n \in Alternatives |-> map(Parse(n, input), n)]

\* alt with the alternatives tried in the given order.
AltInOrder(order, results) == alt([i \in 1..Len(order) |-> results[order[i]]])

Command_try_parse(input) ==
    AltInOrder(<<"Setup", "Open", "Close", "Transmit">>, Mapped(input))

----------------------------------------------------------------------------
(* Bounded inputs                                                          *)

\* Longest payload handed to Frame::new and longest remote length handed to
\* Frame::new_remote (one past the limit of 8).
MaxDataLen == 9

\* Most two-character groups after the DLC character of a received line.
MaxPairs == 9

\* Most commands written to one stream.
MaxCmds == 3

TestIds ==
    {StandardId_new(0), StandardId_new(291), StandardId_new(2047),
     ExtendedId_new(0), ExtendedId_new(291), ExtendedId_new(313249263),
     ExtendedId_new(536870911)}

TestBytes == {0, 10, 171, 255}

\* A payload of n bytes, distinct by position, with byte b at position p
\* (p = 0: nowhere).
Payload(n, p, b) == [i \in 1..n |-> IF i = p THEN b ELSE 16 + i]

NoRes == [kind |-> "None", rest |-> <<>>, val |-> None, code |-> "None"]

NoCall == [op |-> "none", id |-> None, data |-> <<>>, dlc |-> 0]

Parsers == {"Setup", "Open", "Close", "Transmit", "Command"}

\* One call of a try_parse function, by name.
TryParse(name, input) ==
    IF name = "Command" THEN Command_try_parse(input) ELSE Parse(name, input)

Init ==
    /\ pc = "idle"
    /\ call = NoCall
    /\ frame = None
    /\ cmd = None
    /\ wire = <<>>
    /\ res = NoRes
    /\ parser = "None"
    /\ sent = <<>>
    /\ rest = <<>>
    /\ decoded = <<>>

----------------------------------------------------------------------------
(* Specification Spec: an application builds a command, formats it and     *)
(* parses the formatted string back.                                       *)

NewFrame(id, data) ==
    /\ pc = "idle"
    /\ call' = [op |-> "new", id |-> id, data |-> data, dlc |-> Len(data)]
    /\ frame' = Frame_new(id, data)
    /\ pc' = IF frame' = None THEN "rejected" ELSE "framed"
    /\ UNCHANGED <<cmd, wire, res, parser, sent, rest, decoded>>

NewRemoteFrame(id, dlc) ==
    /\ pc = "idle"
    /\ call' = [op |-> "new_remote", id |-> id, data |-> <<>>, dlc |-> dlc]
    /\ frame' = Frame_new_remote(id, dlc)
    /\ pc' = IF frame' = None THEN "rejected" ELSE "framed"
    /\ UNCHANGED <<cmd, wire, res, parser, sent, rest, decoded>>

NewTransmit ==
    /\ pc = "framed"
    /\ cmd' = Transmit_new(frame)
    /\ pc' = "built"
    /\ UNCHANGED <<call, frame, wire, res, parser, sent, rest, decoded>>

NewSetup(b) ==
    /\ pc = "idle"
    /\ cmd' = Setup_new(b)
    /\ pc' = "built"
    /\ UNCHANGED <<call, frame, wire, res, parser, sent, rest, decoded>>

NewOpen ==
    /\ pc = "idle"
    /\ cmd' = Open_new
    /\ pc' = "built"
    /\ UNCHANGED <<call, frame, wire, res, parser, sent, rest, decoded>>

NewClose ==
    /\ pc = "idle"
    /\ cmd' = Close_new
    /\ pc' = "built"
    /\ UNCHANGED <<call, frame, wire, res, parser, sent, rest, decoded>>

FormatCmd ==
    /\ pc = "built"
    /\ wire' = Format(cmd)
    /\ pc' = "formatted"
    /\ UNCHANGED <<call, frame, cmd, res, parser, sent, rest, decoded>>

ParseWire(name) ==
    /\ pc \in {"formatted", "received"}
    /\ res' = TryParse(name, wire)
    /\ parser' = name
    /\ pc' = "parsed"
    /\ UNCHANGED <<call, frame, cmd, wire, sent, rest, decoded>>

Next ==
    \/ \E id \in TestIds, n \in 0..MaxDataLen, p \in 0..MaxDataLen, b \in TestBytes :
          NewFrame(id, Payload(n, p, b))
    \/ \E id \in TestIds, dlc \in 0..MaxDataLen : NewRemoteFrame(id, dlc)
    \/ NewTransmit
    \/ \E i \in 1..Len(Bitrate) : NewSetup(Bitrate[i])
    \/ NewOpen
    \/ NewClose
    \/ FormatCmd
    \/ \E name \in Parsers : ParseWire(name)

Spec == Init /\ [][Next]_vars

----------------------------------------------------------------------------
(* Specification SpecWire: a line arrives from the transport and is parsed *)

WireKinds == {"t", "T", "r", "R"}

StandardIdFields ==
    {<<"1", "2", "3">>,
    <<"7", "F", "F">>,
    <<"8", "0", "0">>,
    <<"F", "F", "F">>,
    <<"+", "1", "2">>,
    <<"1", "G", "3">>,
    <<"7", "f", "f">>,
    <<"1", "2", "U00E9">>}

ExtendedIdFields ==
    {<<"1", "2", "A", "B", "C", "D", "E", "F">>,
    <<"1", "F", "F", "F", "F", "F", "F", "F">>,
    <<"2", "0", "0", "0", "0", "0", "0", "0">>,
    <<"F", "F", "F", "F", "F", "F", "F", "F">>,
    <<"+", "0", "0", "0", "0", "1", "2", "3">>,
    <<"0", "0", "0", "0", "0", "1", "2", "G">>,
    <<"1", "f", "f", "f", "f", "f", "f", "f">>}

\* One well-formed identifier field per kind, used with every DLC and data
\* field below.
PlainIdField(kind) ==
    IF kind \in {"t", "r"} THEN <<"1", "2", "3">>
    ELSE <<"1", "2", "A", "B", "C", "D", "E", "F">>

DlcChars == {"0", "1", "8", "9", "F", "+", "G"}

SpecialPairs == {<<"+", "1">>, <<"G", "0">>, <<"1", "U00E9">>}

\* n two-character groups, distinct by position, with group sp at position p
\* (p = 0: nowhere; the lines below put it first or last).
DataField(n, p, sp) ==
    Concat([i \in 1..n |-> IF i = p THEN sp ELSE <<"A", UpperHex[i + 1]>>])

Tails == {<<CR>>, <<>>, <<CR, "O", CR>>}

TransmitLines ==
    {<<k>> \o idf \o <<d>> \o DataField(n, 0, <<>>) \o tail :
        k \in WireKinds, idf \in StandardIdFields \cup ExtendedIdFields,
        d \in {"0", "1"}, n \in 0..1, tail \in Tails}
    \cup
    UNION {
        {<<k>> \o PlainIdField(k) \o <<d>> \o DataField(n, p, sp) \o tail :
            k \in WireKinds, d \in DlcChars, p \in {0, 1, n},
            sp \in SpecialPairs, tail \in {<<CR>>, <<CR, "O", CR>>}} :
        n \in 0..MaxPairs}

OtherLines ==
    {<<>>,
    <<"S", "0", CR>>,
    <<"S", "8", CR>>,
    <<"S", "9", CR>>,
    <<"S", "0", "0", CR>>,
    <<"S", CR>>,
    <<"S", "4">>,
    <<"S", "5", CR, "O", CR>>,
    <<"O", CR>>,
    <<"O">>,
    <<"O", CR, "C", CR>>,
    <<"C", CR>>,
    <<"C", CR, "O", CR>>,
    <<"C">>,
    <<"C", "0", CR>>,
    <<"X", CR>>,
    <<CR>>,
    <<"t">>,
    <<"T", "1", "2", "3", "4">>,
    <<"r", "1", "2">>,
    <<"t", "1", "2", CR>>,
    <<"s", "0", CR>>}

WireParsers == {"Transmit", "Command"}

Receive(line) ==
    /\ pc = "idle"
    /\ wire' = line
    /\ pc' = "received"
    /\ UNCHANGED <<call, frame, cmd, res, parser, sent, rest, decoded>>

NextWire ==
    \/ \E line \in TransmitLines \cup OtherLines : Receive(line)
    \/ \E name \in WireParsers : ParseWire(name)

SpecWire == Init /\ [][NextWire]_vars

----------------------------------------------------------------------------
(* Specification SpecStream: commands are formatted one after another into *)
(* one string, which is then decoded by calling Command::try_parse on the  *)
(* remainder the previous call returned.                                   *)

StreamCmds ==
    {Setup_new("Rate10kbit"), Setup_new("Rate125kbit"), Setup_new("Rate1000kbit"),
     Open_new, Close_new,
     Transmit_new(Frame_new(StandardId_new(291), <<>>)),
     Transmit_new(Frame_new(StandardId_new(2047), <<12, 13>>)),
     Transmit_new(Frame_new(ExtendedId_new(313249263), <<170, 85>>)),
     Transmit_new(Frame_new(ExtendedId_new(12), <<1, 35, 69, 103, 137, 171, 205, 239>>))}

Send(c) ==
    /\ pc = "idle"
    /\ Len(sent) < MaxCmds
    /\ sent' = Append(sent, c)
    /\ wire' = wire \o Format(c)
    /\ UNCHANGED <<pc, call, frame, cmd, res, parser, rest, decoded>>

StartDecode ==
    /\ pc = "idle"
    /\ rest' = wire
    /\ pc' = IF wire = <<>> THEN "done" ELSE "decoding"
    /\ UNCHANGED <<call, frame, cmd, wire, res, parser, sent, decoded>>

Decode ==
    /\ pc = "decoding"
    /\ res' = Command_try_parse(rest)
    /\ parser' = "Command"
    /\ IF res'.kind = "Ok"
       THEN /\ decoded' = Append(decoded, res'.val)
            /\ rest' = res'.rest
            /\ pc' = IF res'.rest = <<>> THEN "done" ELSE "decoding"
       ELSE /\ pc' = "failed"
            /\ UNCHANGED <<decoded, rest>>
    /\ UNCHANGED <<call, frame, cmd, wire, sent>>

NextStream ==
    \/ \E c \in StreamCmds : Send(c)
    \/ StartDecode
    \/ Decode

SpecStream == Init /\ [][NextStream]_vars

----------------------------------------------------------------------------
(* Properties                                                              *)

\* The value of a string of uppercase hex digits.
RECURSIVE UpperValue(_)
UpperValue(s) ==
    IF s = <<>> THEN 0
    ELSE 16 * UpperValue(SubSeq(s, 1, Len(s) - 1)) + (IndexOf(UpperHex, s[Len(s)]) - 1)

HexChars == Range(UpperHex) \cup Range(LowerHex)

\* Width of the identifier field of a line that starts with a kind character.
IdWidth(line) == IF line[1] \in {"t", "r"} THEN 3 ELSE 8

\* The line holds a kind character, a whole identifier field and a DLC character.
HasDlcChar(line) ==
    /\ line # <<>>
    /\ line[1] \in WireKinds
    /\ Len(line) >= IdWidth(line) + 2

DlcCharOf(line) == line[IdWidth(line) + 2]

\* The identifier field is all hex digits.
IdFieldIsHex(line) == \A i \in 2..(IdWidth(line) + 1) : line[i] \in HexChars

\* An all-hex identifier field above 0x7FF (3 digits) or 0x1FFFFFFF (8 digits):
\* decided by its leading digit.
IdFieldOverflows(line) ==
    /\ IdFieldIsHex(line)
    /\ to_digit(line[2]) >= (IF IdWidth(line) = 3 THEN 8 ELSE 2)

\* C1: parsing the string formatted from Transmit(f) returns Transmit(f) and
\* the empty remainder, for every valid frame f (data or remote, any length).
C1_TransmitRoundTrip ==
    (pc = "parsed" /\ parser = "Transmit" /\ cmd.type = "Transmit")
        => (res.kind = "Ok" /\ res.val = cmd /\ res.rest = <<>>)

\* C2: a line whose DLC character is a hex digit 9..F is answered with a parse
\* error value, whatever follows the DLC character: never a command, never a
\* panic.  (Stated for lines whose identifier field is in range, the lines on
\* which parsing gets as far as the DLC character.)
C2_DlcAbove8IsError ==
    (/\ pc = "parsed"
     /\ parser = "Transmit"
     /\ HasDlcChar(wire)
     /\ IdFieldIsHex(wire) /\ ~IdFieldOverflows(wire)
     /\ to_digit(DlcCharOf(wire)) \in 9..15)
        => res.kind \in {"Error", "Failure"}

\* C3: an identifier field of hex digits whose value exceeds the identifier's
\* range (0x7FF for t/r, 0x1FFFFFFF for T/R) is answered with a parse error
\* value by Transmit::try_parse and by Command::try_parse, not with a panic.
C3_IdOverflowIsError ==
    (/\ pc = "parsed"
     /\ parser \in {"Transmit", "Command"}
     /\ HasDlcChar(wire)
     /\ IdFieldOverflows(wire))
        => res.kind \in {"Error", "Failure"}

\* C4: for a remote line (kind r or R, identifier in range, DLC digit 0..8)
\* no data field is consumed: when '\r' follows the DLC digit the parse
\* succeeds with a remote frame of that length and the remainder is what
\* follows that '\r'; when anything else follows the DLC digit it is not
\* taken as payload, so the parse does not succeed.
C4_RemoteHasNoDataField ==
    (/\ pc = "parsed"
     /\ parser = "Transmit"
     /\ HasDlcChar(wire)
     /\ wire[1] \in {"r", "R"}
     /\ IdFieldIsHex(wire) /\ ~IdFieldOverflows(wire)
     /\ DlcCharOf(wire) \in Range(DecDigits) /\ to_digit(DlcCharOf(wire)) <= 8)
        => LET after == IdWidth(wire) + 3
           IN  IF Len(wire) >= after /\ wire[after] = CR
               THEN /\ res.kind = "Ok"
                    /\ res.val.type = "Transmit"
                    /\ Frame_is_remote_frame(res.val.frame)
                    /\ Frame_dlc(res.val.frame) = to_digit(DlcCharOf(wire))
                    /\ res.rest = Drop(wire, after)
               ELSE res.kind # "Ok"

\* C5: the formatted Transmit is exactly <kind><id><dlc>[<data>]\r: kind by
\* the (extended, remote) table, id in 3 or 8 uppercase hex digits, one
\* decimal digit for the length, `length` pairs of uppercase hex digits in
\* payload order for a data frame and no data at all for a remote frame.
C5_TransmitFormat ==
    (pc \in {"formatted", "parsed"} /\ cmd.type = "Transmit")
        => LET f == cmd.frame
               w == IF f.id.type = "Standard" THEN 3 ELSE 8
               n == IF f.remote THEN 0 ELSE f.dlc
           IN  /\ Len(wire) = 1 + w + 1 + 2 * n + 1
               /\ wire[1] = (CASE f.id.type = "Standard" /\ ~f.remote -> "t"
                               [] f.id.type = "Extended" /\ ~f.remote -> "T"
                               [] f.id.type = "Extended" /\ f.remote  -> "R"
                               [] f.id.type = "Standard" /\ f.remote  -> "r")
               /\ \A i \in 2..(w + 1) : wire[i] \in Range(UpperHex)
               /\ UpperValue(SubSeq(wire, 2, w + 1)) = f.id.raw
               /\ wire[w + 2] = DecDigits[f.dlc + 1]
               /\ \A i \in 1..n :
                     /\ wire[w + 1 + 2 * i] \in Range(UpperHex)
                     /\ wire[w + 2 + 2 * i] \in Range(UpperHex)
                     /\ UpperValue(SubSeq(wire, w + 1 + 2 * i, w + 2 + 2 * i)) = f.data[i]
               /\ wire[Len(wire)] = CR

\* A remote frame of nonzero length has been formatted.
C5_Witness ==
    /\ pc = "formatted"
    /\ cmd.type = "Transmit"
    /\ cmd.frame.remote
    /\ cmd.frame.dlc = 8
    /\ cmd.frame.id.type = "Extended"

\* C6: Transmit::try_parse succeeds only if every character of the identifier
\* field, the DLC field and the data field (2 * DLC characters) is a hex digit
\* 0-9, A-F or a-f.
C6_OnlyHexDigitsParse ==
    (pc = "parsed" /\ parser = "Transmit" /\ res.kind = "Ok")
        => /\ HasDlcChar(wire)
           /\ IdFieldIsHex(wire)
           /\ DlcCharOf(wire) \in HexChars
           /\ LET first == IdWidth(wire) + 3
                  last  == IdWidth(wire) + 2 + 2 * to_digit(DlcCharOf(wire))
              IN  /\ Len(wire) >= last
                  /\ \A i \in first..last : wire[i] \in HexChars

\* The code of each bitrate on the wire.
BitrateCode ==
    [Rate10kbit |-> "0", Rate20kbit |-> "1", Rate50kbit |-> "2",
     Rate100kbit |-> "3", Rate125kbit |-> "4", Rate250kbit |-> "5",
     Rate500kbit |-> "6", Rate800kbit |-> "7", Rate1000kbit |-> "8"]

\* C7: Setup(b) is formatted as "S<code>\r" with the one decimal digit code of
\* b, and Setup::try_parse of that string returns Setup(b) and the empty
\* remainder.
C7_SetupRoundTrip ==
    (pc = "parsed" /\ parser = "Setup" /\ cmd.type = "Setup")
        => /\ wire = <<"S", BitrateCode[cmd.bitrate], CR>>
           /\ res.kind = "Ok"
           /\ res.val = [type |-> "Setup", bitrate |-> cmd.bitrate]
           /\ res.rest = <<>>

\* Setup with the last bitrate has been formatted and parsed back.
C7_Witness ==
    /\ pc = "parsed"
    /\ parser = "Setup"
    /\ cmd = [type |-> "Setup", bitrate |-> "Rate1000kbit"]
    /\ res.kind = "Ok"

\* Every frame the state holds: the constructor's, the command's, the parsed one.
FramesHeld ==
    (IF frame # None THEN {frame} ELSE {})
    \cup (IF cmd.type = "Transmit" THEN {cmd.frame} ELSE {})
    \cup (IF res.kind = "Ok" /\ res.val.type = "Transmit" THEN {res.val.frame} ELSE {})
    \cup (IF res.kind = "Ok" /\ res.val.type = "Command" /\ res.val.variant = "Transmit"
          THEN {res.val.value.frame} ELSE {})

\* C8: Frame::new returns nothing iff the data has more than 8 bytes and
\* Frame::new_remote returns nothing iff the length is above 8; every frame
\* has a length of at most 8 and a payload accessor of exactly that many
\* bytes; a data frame built from 8 bytes keeps all 8 in order.
C8_FrameLength ==
    /\ call.op = "new" => (frame = None <=> Len(call.data) > 8)
    /\ call.op = "new_remote" => (frame = None <=> call.dlc > 8)
    /\ \A f \in FramesHeld : Frame_dlc(f) <= 8 /\ Len(Frame_data(f)) = Frame_dlc(f)
    /\ (call.op = "new" /\ Len(call.data) = 8)
          => (frame # None /\ Frame_data(frame) = call.data)

\* A data frame built from 8 bytes has been formatted and parsed back.
C8_Witness ==
    /\ call.op = "new"
    /\ Len(call.data) = 8
    /\ frame # None
    /\ pc = "parsed"
    /\ parser = "Transmit"
    /\ res.kind = "Ok"

\* The orders in which the four alternatives can be tried.
Orders ==
    {o \in [1..4 -> Alternatives] : \A i, j \in 1..4 : i # j => o[i] # o[j]}

\* C9: on every input at most one of the four parsers succeeds;
\* Command::try_parse succeeds iff one does, with that parser's command and
\* remainder; trying the parsers in any other order succeeds on the same
\* inputs with the same result.
C9_DispatchOrderIndependent ==
    (pc = "parsed" /\ parser = "Command")
        => LET oks == {n \in Alternatives : Parse(n, wire).kind = "Ok"}
           IN  /\ Cardinality(oks) <= 1
               /\ res.kind = "Ok" <=> oks # {}
               /\ \A n \in oks :
                     /\ res.val = [type |-> "Command", variant |-> n,
                                   value |-> Parse(n, wire).val]
                     /\ res.rest = Parse(n, wire).rest
               /\ \A o \in Orders :
                     LET r == AltInOrder(o, Mapped(wire))
                     IN  /\ r.kind = "Ok" <=> res.kind = "Ok"
                         /\ r.kind = "Ok" => r = res

\* A Close command, whose letter is also a hex digit, has been dispatched.
C9_Witness ==
    /\ pc = "parsed"
    /\ parser = "Command"
    /\ res.kind = "Ok"
    /\ res.val.variant = "Close"
    /\ res.rest # <<>>

Wrap(c) == [type |-> "Command", variant |-> c.type, value |-> c]

\* C10: decoding the concatenation of the formatted commands c1..cn never
\* fails; after k calls the commands decoded are c1..ck and the remainder is
\* exactly the formatted c(k+1)..cn, so each call consumed one command up to
\* and including its '\r'; decoding ends with all n commands and the empty
\* remainder.
C10_StreamDecoding ==
    /\ pc # "failed"
    /\ pc \in {"decoding", "done"} =>
          LET k == Len(decoded)
          IN  /\ k <= Len(sent)
              /\ decoded = [i \in 1..k |-> Wrap(sent[i])]
              /\ rest = Concat([i \in 1..(Len(sent) - k) |-> Format(sent[k + i])])
              /\ Len(wire) - Len(rest) =
                    Len(Concat([i \in 1..k |-> Format(sent[i])]))
              /\ k > 0 => wire[Len(wire) - Len(rest)] = CR
    /\ pc = "done" => (Len(decoded) = Len(sent) /\ rest = <<>>)

\* A stream of a Setup, a Transmit and a Close has been decoded to the end.
C10_Witness ==
    /\ pc = "done"
    /\ Len(decoded) = 3
    /\ sent[1].type = "Setup"
    /\ sent[2].type = "Transmit"
    /\ sent[3].type = "Close"

====
